---- MODULE Spec2Model ----
(***************************************************************************)
(* Focus session controller (App.tsx), stuck panel (WidgetView.tsx),       *)
(* advisor pivot request (services/ai.ts), event tracker                   *)
(* (services/tracker/tracker.ts) and the main-process event store          *)
(* (main/index.ts) of adhdplanner_windows.                                 *)
(*                                                                         *)
(* Text is a sequence of characters so that String.trim() is computed.     *)
(* Time is in milliseconds; elapsed seconds are Math.floor(ms / 1000).     *)
(***************************************************************************)
EXTENDS Integers, Sequences, FiniteSets, TLC

\* ---------------------------------------------------------------- bounds
MaxSessions == 2
MaxNow == 1000
MaxRequests == 1
MaxHistory == 2
MaxSubtasks == 2
MaxDayEvents == 3
ActualSecs == 5
EstimatedSecs == 8
MaxLogSessions == 2
MaxStamp == 3
FlowSecs == 60
MaxBuilds == 2
MaxPivotRequests == 2

\* ---------------------------------------------------------------- text
\* the texts a user or the advisor supplies: empty, blank, plain, padded
Texts == {<<>>, <<" ">>, <<"a">>, <<" ", "b", " ">>}

RECURSIVE TrimStart(_)
TrimStart(s) ==
  IF s = <<>> THEN <<>>
  ELSE IF Head(s) = " " THEN TrimStart(Tail(s)) ELSE s

RECURSIVE TrimEnd(_)
TrimEnd(s) ==
  IF s = <<>> THEN <<>>
  ELSE IF s[Len(s)] = " " THEN TrimEnd(SubSeq(s, 1, Len(s) - 1)) ELSE s

\* String.prototype.trim
Trim(s) == TrimEnd(TrimStart(s))

\* ---------------------------------------------------------------- tasks
Tasks == {"t1"}
\* task.title of the task with the given id
TitleOf(t) == <<t>>

\* ---------------------------------------------------------------- time
TickMs == 500
\* Math.floor((Date.now() - startTime) / 1000)
ElapsedSeconds(t, startTime) == (t - startTime) \div 1000

\* ---------------------------------------------------------------- state
VARIABLES
  scaffoldTaskId,   \* App: task shown in the FocusFlow overlay, "" = none
  session,          \* App: the FocusSession or NoSession
  sessionIdRef,     \* App: sessionIdRef.current, 0 = ''
  isWidgetMode,     \* App: widget mode flag
  pivotData,        \* FocusDynamicBar: PivotResult or NoPivot
  loadingPivot,     \* FocusDynamicBar: pivot request spinner
  inflight,         \* advisor pivot requests not yet answered
  aiConfig,         \* App: "unset" (no key or model), "no_url", "ok"
  emitted,          \* the events the last step passed to tracker.track
  obs,              \* what has been observed of all events tracked so far
  now,              \* Date.now()
  nextSid,          \* number of session ids generated so far
  nextReq,          \* number of advisor requests issued so far
  last,             \* the command last issued and what it did
  tasks,            \* App: per task, the completed flag of each of its subtasks
  buffer,           \* Tracker.buffer
  flushTimer,       \* Tracker.flushTimer is set
  timers,           \* number of setInterval timers that are running
  initialized,      \* Tracker.initialized
  unloadListeners,  \* beforeunload listeners registered by Tracker.init
  today,            \* getToday()
  tracked,          \* number of events stamped by Tracker.track so far
  pending,          \* tracker:append calls sent and not yet settled, oldest first
  store,            \* the tracker-<date>.json files of the main process
  unreadable,       \* the dates whose file no longer parses
  fails,            \* appends that have failed so far
  tlast,            \* the tracker step last taken
  dayEvents,        \* the event list handed to buildDailySummary
  summary,          \* the DailySummary built from it, or NoSummary
  context,          \* the lines summaryToLLMContext returned, <<>> = not called
  builds            \* number of buildDailySummary calls so far

svars == <<scaffoldTaskId, session, sessionIdRef, isWidgetMode, pivotData,
           loadingPivot, inflight, aiConfig, emitted, obs, now, nextSid,
           nextReq, last, tasks>>

tvars == <<buffer, flushTimer, timers, initialized, unloadListeners, today, tracked,
           pending, store, unreadable, fails, tlast>>

dvars == <<dayEvents, summary, context, builds>>

vars == <<svars, tvars, dvars>>

AIConfigs == {"unset", "no_url", "ok"}
NoSession == [phase |-> "none"]
NoPivot == [none |-> TRUE]
NoSummary == [built |-> FALSE]
Phases == {"executing", "relay", "stuck_a", "stuck_b"}

FlowOf(s) == IF s = NoSession THEN FALSE ELSE s.isFlowMode

\* A TrackEvent as handed to tracker.track: type and payload fields.
Ev(type, sid, task, micro, secs, count, info) ==
  [type |-> type, sessionId |-> sid, taskId |-> task, microAction |-> micro,
   seconds |-> secs, count |-> count, info |-> info, text |-> <<>>]

\* the same with the free-text field (reason / chosenPivot)
EvText(type, sid, task, micro, text, info) ==
  [type |-> type, sessionId |-> sid, taskId |-> task, microAction |-> micro,
   seconds |-> -1, count |-> -1, info |-> info, text |-> text]

\* result of a handler: the session it leaves and the events it tracked
R(s, ev) == [s |-> s, ev |-> ev]

\* ------------------------------------------------- App.tsx handlers
\* Each handler is the whole callback: its early return, the events it
\* tracks (sessionId from sessionIdRef.current) and the updater it queues.

\* handleStartMicro: the session it creates
\* variant of handleStartMicro's session that reuses one session id
NewSession_sameId(sid, task, microTask, t) ==
  [sessionId |-> 1, taskId |-> task, taskTitle |-> TitleOf(task),
   currentMicroTask |-> microTask, startTime |-> t, isFlowMode |-> FALSE,
   phase |-> "executing", microHistory |-> <<>>]

\* handleStartMicro: the session it creates
NewSession(sid, task, microTask, t) ==
  [sessionId |-> sid, taskId |-> task, taskTitle |-> TitleOf(task),
   currentMicroTask |-> microTask, startTime |-> t, isFlowMode |-> FALSE,
   phase |-> "executing", microHistory |-> <<>>]

\* subtasks.find(s => !s.completed): the index of the first open subtask,
\* 0 = none (a subtask's id is its index)
ActiveSubtask(subs) ==
  IF \A i \in 1..Len(subs) : subs[i] THEN 0
  ELSE CHOOSE i \in 1..Len(subs) :
         ~subs[i] /\ \A j \in 1..(i - 1) : subs[j]

\* handleStartMicro: the subtask fields of the session it creates (a flag
\* not yet set reads as false)
SubtaskFields(subs) ==
  [currentSubtaskId |-> ActiveSubtask(subs), isSubtaskTransition |-> FALSE,
   allSubtasksDone |-> FALSE]

\* handleSubtaskDone: the subtasks of the task after the setTasks updater
SubtasksAfterDone(s, ts) ==
  [ts[s.taskId] EXCEPT ![s.currentSubtaskId] = TRUE]

\* handleSubtaskDone; the setTasks updater that assigns nextSubtask has run
\* by the time nextSubtask is read (eager) or is still queued for the render
handleSubtaskDone(s, ref, ts, eager) ==
  IF s = NoSession THEN R(s, <<>>)
  ELSE IF s.currentSubtaskId = 0 THEN R(s, <<>>)
  ELSE LET nextSubtask ==
             IF eager THEN ActiveSubtask(SubtasksAfterDone(s, ts)) ELSE 0
       IN R([s EXCEPT !.phase = "relay",
                      !.currentSubtaskId = nextSubtask,
                      !.isSubtaskTransition = (nextSubtask # 0),
                      !.allSubtasksDone = (nextSubtask = 0),
                      !.microHistory = Append(@, s.currentMicroTask)],
            <<Ev("exec.subtask_completed", ref, s.taskId, <<>>, -1,
                 s.currentSubtaskId, "")>>)

\* handleSubtaskDone: the task list after setTasks
TasksAfterSubtaskDone(s, ts) ==
  IF s = NoSession THEN ts
  ELSE IF s.currentSubtaskId = 0 THEN ts
  ELSE [ts EXCEPT ![s.taskId] = SubtasksAfterDone(s, ts)]

\* handleTaskDone: the task list after setTasks
TasksAfterTaskDone(s, ts) ==
  IF s = NoSession THEN ts
  ELSE [ts EXCEPT ![s.taskId] = [i \in 1..Len(@) |-> TRUE]]

\* handleStartMicro: the events it tracks
StartEvents(sid, task, microTask, source) ==
  <<Ev("plan.first_micro", 0, task, microTask, -1, -1, source),
    Ev("session.started", sid, task, <<>>, -1, -1, ""),
    Ev("exec.micro_started", sid, task, microTask, -1, -1, "")>>

\* handleFocusTask: the events it tracks
FocusEvents(id) ==
  <<Ev("plan.brain_dump", 0, "", <<>>, -1, Cardinality(Tasks), ""),
    Ev("plan.focus_selected", 0, id, <<>>, -1, -1, "")>>

\* variant of handleMicroComplete that counts a begun second as a whole one
handleMicroComplete_roundsUp(s, ref, t) ==
  IF s = NoSession THEN R(s, <<>>)
  ELSE R([s EXCEPT !.phase = "relay",
                   !.microHistory = Append(@, s.currentMicroTask)],
         <<Ev("exec.micro_completed", ref, s.taskId, s.currentMicroTask,
              (t - s.startTime + 999) \div 1000, -1, "")>>)

handleMicroComplete(s, ref, t) ==
  IF s = NoSession THEN R(s, <<>>)
  ELSE R([s EXCEPT !.phase = "relay",
                   !.microHistory = Append(@, s.currentMicroTask)],
         <<Ev("exec.micro_completed", ref, s.taskId, s.currentMicroTask,
              ElapsedSeconds(t, s.startTime), -1, "")>>)

handleNextMicro(s, ref, t, micro) ==
  IF s = NoSession THEN R(s, <<>>)
  ELSE R([s EXCEPT !.phase = "executing", !.currentMicroTask = micro,
                   !.startTime = t, !.isSubtaskTransition = FALSE,
                   !.allSubtasksDone = FALSE],
         <<Ev("exec.micro_started", ref, s.taskId, micro, -1, -1, "")>>)

\* variant of handleStuck that skips the reason step
handleStuck_skipReason(s, ref, t) ==
  IF s = NoSession THEN R(s, <<>>)
  ELSE R([s EXCEPT !.phase = "stuck_b"],
         <<Ev("stuck.triggered", ref, s.taskId, s.currentMicroTask,
              ElapsedSeconds(t, s.startTime), -1, "")>>)

\* variant of handleStuck that reports the time since the session began
handleStuck_sessionTime(s, ref, t) ==
  IF s = NoSession THEN R(s, <<>>)
  ELSE R([s EXCEPT !.phase = "stuck_a"],
         <<Ev("stuck.triggered", ref, s.taskId, s.currentMicroTask,
              ElapsedSeconds(t, 0), -1, "")>>)

handleStuck(s, ref, t) ==
  IF s = NoSession THEN R(s, <<>>)
  ELSE R([s EXCEPT !.phase = "stuck_a"],
         <<Ev("stuck.triggered", ref, s.taskId, s.currentMicroTask,
              ElapsedSeconds(t, s.startTime), -1, "")>>)

handleStuckToB(s) ==
  IF s = NoSession THEN R(s, <<>>)
  ELSE R([s EXCEPT !.phase = "stuck_b"], <<>>)

handleResume(s, ref, t, newMicro) ==
  IF s = NoSession THEN R(s, <<>>)
  ELSE R([s EXCEPT !.phase = "executing", !.currentMicroTask = newMicro,
                   !.startTime = t],
         <<Ev("exec.micro_started", ref, s.taskId, newMicro, -1, -1, "")>>)

handleEnterFlow(s, ref, t) ==
  IF s = NoSession THEN R(s, <<>>)
  ELSE R([s EXCEPT !.phase = "executing", !.isFlowMode = TRUE,
                   !.startTime = t, !.currentMicroTask = s.taskTitle],
         <<Ev("exec.flow_entered", ref, s.taskId, s.currentMicroTask, -1,
              Len(s.microHistory), "")>>)

\* variant of handleTaskDone that records the exit as well
handleTaskDone_andExit(s, ref, t) ==
  IF s = NoSession THEN R(s, <<>>)
  ELSE LET flowDuration == ElapsedSeconds(t, s.startTime) IN
       R(NoSession,
         <<Ev("exec.flow_ended", ref, s.taskId, <<>>, flowDuration, -1,
              "task_done"),
           Ev("session.macro_completed", 0, s.taskId, <<>>, -1, -1, "flow"),
           Ev("session.ended", ref, s.taskId, <<>>, flowDuration,
              Len(s.microHistory), "task_done"),
           Ev("session.ended", ref, s.taskId, <<>>, flowDuration,
              Len(s.microHistory), "exit")>>)

handleTaskDone(s, ref, t) ==
  IF s = NoSession THEN R(s, <<>>)
  ELSE LET flowDuration == ElapsedSeconds(t, s.startTime) IN
       R(NoSession,
         <<Ev("exec.flow_ended", ref, s.taskId, <<>>, flowDuration, -1,
              "task_done"),
           Ev("session.macro_completed", 0, s.taskId, <<>>, -1, -1, "flow"),
           Ev("session.ended", ref, s.taskId, <<>>, flowDuration,
              Len(s.microHistory), "task_done")>>)

\* variant of handleExitWidget that records an abandonment in every phase
handleExitWidget_alwaysAbandon(s, ref, t) ==
  IF s = NoSession THEN R(NoSession, <<>>)
  ELSE R(NoSession,
         <<Ev("abandon.exit", ref, s.taskId, s.currentMicroTask,
              ElapsedSeconds(t, s.startTime), -1, s.phase),
           Ev("session.ended", ref, s.taskId, <<>>,
              ElapsedSeconds(t, IF Len(s.microHistory) > 0
                                THEN s.startTime ELSE t),
              Len(s.microHistory), "exit")>>)

handleExitWidget(s, ref, t) ==
  LET abandon ==
        IF s # NoSession /\ s.phase = "executing"
        THEN <<Ev("abandon.exit", ref, s.taskId, s.currentMicroTask,
                  ElapsedSeconds(t, s.startTime), -1, s.phase)>>
        ELSE <<>>
      ended ==
        IF s # NoSession
        THEN LET sessionStart == IF Len(s.microHistory) > 0
                                 THEN s.startTime ELSE t IN
             <<Ev("session.ended", ref, s.taskId, <<>>,
                  ElapsedSeconds(t, sessionStart), Len(s.microHistory),
                  "exit")>>
        ELSE <<>>
  IN R(NoSession, abandon \o ended)

\* ------------------------------------------------- services/ai.ts
\* What callLLM can produce for a configured request: an error, or the
\* content extracted from the response body.  The content is whatever the
\* service sent: a JSON object (with or without the expected fields), text
\* holding no JSON object, or a value that is not a string.
Empathies == {"", "e"}
PivotArrays == {<<>>, << <<" ", "b", " ">>, <<" ">>, <<"a">> >>}
Contents ==
  [kind : {"object"}, empathy : Empathies, isArray : {TRUE}, pivots : PivotArrays]
    \cup [kind : {"object"}, empathy : Empathies, isArray : {FALSE}, pivots : {<<>>}]
    \cup {[kind |-> "text"], [kind |-> "non_string"]}
LLMResults == {[error |-> TRUE]} \cup [error : {FALSE}, content : Contents]

\* Array.prototype.slice(0, n)
SliceTo(arr, n) == SubSeq(arr, 1, IF Len(arr) < n THEN Len(arr) ELSE n)

Rejected == [rejected |-> TRUE]
PivotResult(e, p, err) == [empathy |-> e, pivots |-> p, error |-> err]

\* callLLM: without apiKey, modelId or apiUrl it answers with an error
\* before any request is made
callLLM(cfg, llm) == IF cfg # "ok" THEN [error |-> TRUE] ELSE llm

generatePivotResponse(cfg, llm) ==
  IF cfg = "unset" THEN PivotResult("", <<>>, FALSE)
  ELSE LET r == callLLM(cfg, llm) IN
    IF r.error THEN PivotResult("", <<>>, TRUE)
    ELSE IF r.content.kind = "object"
      THEN PivotResult(r.content.empathy,
                       IF r.content.isArray THEN SliceTo(r.content.pivots, 2)
                       ELSE <<>>,
                       FALSE)
    ELSE IF r.content.kind = "text" THEN PivotResult("", <<>>, TRUE)
    ELSE Rejected

\* what the service did: the call failed, or it sent text without a JSON
\* object, a value that is not a string, a JSON object whose pivots are not
\* an array, or a JSON object of the expected shape
LLMClass(llm) ==
  IF llm.error THEN "error"
  ELSE IF llm.content.kind # "object" THEN llm.content.kind
  ELSE IF ~llm.content.isArray THEN "object_malformed"
  ELSE "object"

\* generatePivotResponse settles without leaving the renderer when the
\* configuration is incomplete; otherwise it waits for the main process.
AnswersAtOnce(cfg) == cfg # "ok"

\* ------------------------------------------------- FocusDynamicBar
\* handleSubmitStuckReason up to the advisor call
\* variant of handleSubmitStuckReason that leaves the phase to the answer
handleSubmitStuckReason_waits(s, reason, reasonSource) ==
  IF Trim(reason) = <<>> THEN R(s, <<>>)
  ELSE R(s,
         <<EvText("stuck.reason", s.sessionId, s.taskId, s.currentMicroTask,
                  Trim(reason), reasonSource)>>)

handleSubmitStuckReason(s, reason, reasonSource) ==
  IF Trim(reason) = <<>> THEN R(s, <<>>)
  ELSE R(handleStuckToB(s).s,
         <<EvText("stuck.reason", s.sessionId, s.taskId, s.currentMicroTask,
                  Trim(reason), reasonSource)>>)

\* handleSubmitStuckReason: the event its .then callback tracks for the
\* request r (the session values its closure captured)
OfferedEvents(r, res) ==
  IF res # Rejected /\ (res.empathy # "" \/ Len(res.pivots) > 0)
  THEN <<EvText("stuck.pivot_offered", r.sessionId, r.taskId, <<>>, <<>>, "")>>
  ELSE <<>>

\* a state setter of the FocusDynamicBar instance that issued request r
\* acts only while that instance is mounted, i.e. while its session lives
Mounted(r, s) == s # NoSession /\ s.sessionId = r.sessionId

\* handleSubmitStuckReason: pivotData after its .then / .catch callback
SettledPivotData(r, res, s, pd) ==
  IF Mounted(r, s) /\ res # Rejected THEN res ELSE pd

\* handleSubmitStuckReason: loadingPivot after its .then / .catch callback
SettledLoading(r, s, lp) == IF Mounted(r, s) THEN FALSE ELSE lp

handlePivotResume(s, ref, t, newMicro, pivotSource) ==
  IF Trim(newMicro) # <<>>
  THEN LET res == handleResume(s, ref, t, Trim(newMicro)) IN
       R(res.s,
         <<EvText("stuck.pivot_chosen", s.sessionId, s.taskId, <<>>,
                  Trim(newMicro), pivotSource)>> \o res.ev)
  ELSE R(s, <<>>)

\* phase effect of the re-render (branch executing) and mount / unmount:
\* pivotData after the session went from s to s2
PanelPivotData(s, s2, pd) ==
  IF s = NoSession \/ s2 = NoSession THEN NoPivot
  ELSE IF s2.phase # s.phase /\ s2.phase = "executing" THEN NoPivot
  ELSE pd

\* loadingPivot after the session went from s to s2 (fresh on mount)
PanelLoading(s, s2, lp) ==
  IF s = NoSession \/ s2 = NoSession THEN FALSE ELSE lp


\* ------------------------------------------------- observer
\* The tracker receives the events one by one; the observer keeps, of the
\* whole sequence tracked so far, which sessions have started and ended,
\* which have a micro-action started and not yet completed, and the
\* orderings that were broken.
NoObs ==
  [started |-> {}, ended |-> {}, open |-> {}, broken |-> {}, microAt |-> -1,
   stuckOf |-> <<0, <<>> >>]

Observe(o, e) ==
  IF e.type = "session.started"
    THEN [o EXCEPT !.started = @ \cup {e.sessionId},
                   !.broken = IF e.sessionId \in o.started
                              THEN @ \cup {"started_twice"} ELSE @]
  ELSE IF e.type = "session.ended"
    THEN [o EXCEPT !.ended = @ \cup {e.sessionId},
                   !.stuckOf = <<0, <<>> >>,
                   !.broken = IF e.sessionId \in o.ended
                              THEN @ \cup {"ended_twice"} ELSE @]
  ELSE IF e.type = "exec.micro_started"
    THEN [o EXCEPT !.open = @ \cup {e.sessionId}, !.stuckOf = <<0, <<>> >>]
  ELSE IF e.type = "exec.micro_completed"
    THEN [o EXCEPT !.open = @ \ {e.sessionId},
                   !.broken = IF e.sessionId \notin o.open
                              THEN @ \cup {"completed_unstarted"} ELSE @]
  ELSE IF e.type = "stuck.pivot_offered"
    THEN [o EXCEPT !.broken = IF e.sessionId \in o.ended
                              THEN @ \cup {"offered_after_end"} ELSE @]
  ELSE IF e.type = "abandon.exit"
    THEN [o EXCEPT !.broken = IF e.sessionId \in o.ended
                              THEN @ \cup {"abandon_after_end"} ELSE @]
  ELSE IF e.type = "stuck.triggered"
    THEN [o EXCEPT !.stuckOf = <<e.sessionId, e.microAction>>]
  ELSE IF e.type = "stuck.reason"
    THEN [o EXCEPT !.broken = IF o.stuckOf # <<e.sessionId, e.microAction>>
                              THEN @ \cup {"reason_untriggered"} ELSE @]
  ELSE o

RECURSIVE ObserveAll(_, _)
ObserveAll(o, evs) ==
  IF evs = <<>> THEN o ELSE ObserveAll(Observe(o, Head(evs)), Tail(evs))

\* the observer's clock: when the micro-action now running was started
\* (the time of the last exec.micro_started; none once a session.ended or
\* an exec.micro_completed followed)
Stamped(o, evs, t) ==
  LET ends == {i \in DOMAIN evs :
                 evs[i].type \in {"session.ended", "exec.micro_completed"}}
      starts == {i \in DOMAIN evs : evs[i].type = "exec.micro_started"}
  IN IF starts # {} THEN [o EXCEPT !.microAt = t]
     ELSE IF ends # {} THEN [o EXCEPT !.microAt = -1]
     ELSE o

\* ------------------------------------------------- tracker.ts, main/index.ts
MaxTracked == 3
MaxFails == 2
MaxInits == 2
MaxBurst == 11
FLUSH_THRESHOLD == 10
Dates == <<"d1", "d2">>
DateSet == {Dates[i] : i \in DOMAIN Dates}

\* a TrackEvent as the tracker stores it: uid() and getToday()
Stamp(n, date) == [id |-> n, date |-> date]

RECURSIVE OfDate(_, _)
\* the events of evs with the given date, in order
OfDate(evs, date) ==
  IF evs = <<>> THEN <<>>
  ELSE IF Head(evs).date = date THEN <<Head(evs)>> \o OfDate(Tail(evs), date)
  ELSE OfDate(Tail(evs), date)

RECURSIVE DatesOf(_, _)
\* the dates of evs in order of first occurrence (Map insertion order)
DatesOf(evs, seen) ==
  IF evs = <<>> THEN <<>>
  ELSE IF Head(evs).date \in seen THEN DatesOf(Tail(evs), seen)
  ELSE <<Head(evs).date>> \o DatesOf(Tail(evs), seen \cup {Head(evs).date})

\* variant of Tracker.flush that sends the whole buffer in one call under
\* the date of its first event
FlushCalls_oneCall(buf) ==
  IF buf = <<>> THEN <<>>
  ELSE <<[date |-> Head(buf).date, events |-> buf]>>

\* Tracker.flush: the appendTrackerEvents calls issued for the buffer buf
FlushCalls(buf) ==
  LET ds == DatesOf(buf, {}) IN
  [i \in DOMAIN ds |-> [date |-> ds[i], events |-> OfDate(buf, ds[i])]]

\* Tracker.flush: the buffer it leaves
FlushedBuffer(buf) == <<>>

\* the .catch callback of Tracker.flush: the buffer after a rejected call
Requeue(buf, events) == buf \o events

\* appendTrackerEvents in the main process: the file after a successful
\* read, merge and write
Merged(existing, events) == existing \o events

TOp(op, events, before) == [op |-> op, events |-> events, before |-> before]

TInit ==
  /\ buffer = <<>>
  /\ flushTimer = FALSE
  /\ timers = 0
  /\ initialized = FALSE
  /\ unloadListeners = 0
  /\ today = 1
  /\ tracked = 0
  /\ pending = <<>>
  /\ store = [d \in DateSet |-> <<>>]
  /\ unreadable = {}
  /\ fails = 0
  /\ tlast = TOp("init", <<>>, <<>>)

\* Tracker.flush on the buffer buf
Flush(buf) ==
  /\ buffer' = FlushedBuffer(buf)
  /\ pending' = pending \o FlushCalls(buf)

\* variant of Tracker.init without the initialized check
TrackerInit_unguarded ==
  /\ unloadListeners < MaxInits
  /\ initialized' = TRUE
  /\ flushTimer' = TRUE
  /\ timers' = timers + 1
  /\ unloadListeners' = unloadListeners + 1
  /\ tlast' = TOp("init", <<>>, buffer)
  /\ UNCHANGED <<buffer, today, tracked, pending, store, unreadable, fails>>
  /\ UNCHANGED <<svars, dvars>>

\* Tracker.init
TrackerInit ==
  /\ unloadListeners < MaxInits
  /\ IF initialized
     THEN UNCHANGED <<initialized, flushTimer, timers, unloadListeners>>
     ELSE /\ initialized' = TRUE
          /\ flushTimer' = TRUE
          /\ timers' = timers + 1
          /\ unloadListeners' = unloadListeners + 1
  /\ tlast' = TOp("init", <<>>, buffer)
  /\ UNCHANGED <<buffer, today, tracked, pending, store, unreadable, fails>>
  /\ UNCHANGED <<svars, dvars>>

\* Tracker.destroy
DestroyStep ==
  /\ Flush(buffer)
  /\ timers' = IF flushTimer THEN timers - 1 ELSE timers
  /\ flushTimer' = FALSE
  /\ initialized' = FALSE
  /\ tlast' = TOp("destroy", <<>>, buffer)
  /\ UNCHANGED <<unloadListeners, today, tracked, store, unreadable, fails>>
  /\ UNCHANGED <<svars, dvars>>

\* Tracker.destroy as the cleanup of the App effect that called init
TrackerDestroy ==
  /\ initialized
  /\ DestroyStep

\* variant of Tracker.track that flushes only above the threshold
TrackStep_above ==
  /\ tracked' = tracked + 1
  /\ LET buf == Append(buffer, Stamp(tracked + 1, Dates[today])) IN
     IF Len(buf) > FLUSH_THRESHOLD
     THEN Flush(buf)
     ELSE buffer' = buf /\ UNCHANGED pending
  /\ tlast' = TOp("track", <<Stamp(tracked + 1, Dates[today])>>, buffer)
  /\ UNCHANGED <<flushTimer, timers, initialized, unloadListeners, today, store, unreadable, fails>>
  /\ UNCHANGED <<svars, dvars>>

\* Tracker.track
TrackStep ==
  /\ tracked' = tracked + 1
  /\ LET buf == Append(buffer, Stamp(tracked + 1, Dates[today])) IN
     IF Len(buf) >= FLUSH_THRESHOLD
     THEN Flush(buf)
     ELSE buffer' = buf /\ UNCHANGED pending
  /\ tlast' = TOp("track", <<Stamp(tracked + 1, Dates[today])>>, buffer)
  /\ UNCHANGED <<flushTimer, timers, initialized, unloadListeners, today, store, unreadable, fails>>
  /\ UNCHANGED <<svars, dvars>>

\* Tracker.track, as one of a bounded number of calls
TrackerTrack ==
  /\ tracked < MaxTracked
  /\ TrackStep

\* the setInterval callback of Tracker.init
TimerFlush ==
  /\ timers > 0
  /\ buffer # <<>>
  /\ Flush(buffer)
  /\ tlast' = TOp("flush", <<>>, buffer)
  /\ UNCHANGED <<flushTimer, timers, initialized, unloadListeners, today, tracked,
                 store, unreadable, fails>>
  /\ UNCHANGED <<svars, dvars>>

\* the beforeunload listener of Tracker.init
UnloadFlush ==
  /\ unloadListeners > 0
  /\ buffer # <<>>
  /\ Flush(buffer)
  /\ tlast' = TOp("flush", <<>>, buffer)
  /\ UNCHANGED <<flushTimer, timers, initialized, unloadListeners, today, tracked,
                 store, unreadable, fails>>
  /\ UNCHANGED <<svars, dvars>>

\* the calendar day changes
Midnight ==
  /\ today < Len(Dates)
  /\ today' = today + 1
  /\ tlast' = TOp("midnight", <<>>, buffer)
  /\ UNCHANGED <<buffer, flushTimer, timers, initialized, unloadListeners, tracked,
                 pending, store, unreadable, fails>>
  /\ UNCHANGED <<svars, dvars>>

\* appendTrackerEvents returns true: the file holds the merged list
AppendOk ==
  /\ pending # <<>>
  /\ LET c == Head(pending) IN
     /\ c.date \notin unreadable
     /\ store' = [store EXCEPT ![c.date] = Merged(@, c.events)]
     /\ UNCHANGED unreadable
     /\ tlast' = TOp("ok", c.events, buffer)
  /\ pending' = Tail(pending)
  /\ UNCHANGED <<buffer, flushTimer, timers, initialized, unloadListeners, today,
                 tracked, fails>>
  /\ UNCHANGED <<svars, dvars>>

\* appendTrackerEvents catches an fs error and returns false: the promise
\* of the tracker resolves, so its .catch callback does not run
AppendFalse ==
  /\ pending # <<>>
  /\ fails < MaxFails
  /\ fails' = fails + 1
  /\ tlast' = TOp("false", Head(pending).events, buffer)
  /\ pending' = Tail(pending)
  /\ UNCHANGED <<buffer, flushTimer, timers, initialized, unloadListeners, today,
                 tracked, store, unreadable>>
  /\ UNCHANGED <<svars, dvars>>

\* appendTrackerEvents returns false after writeFileSync failed part way:
\* the file was opened for writing, which truncates it, and holds at most a
\* piece of the JSON text, so JSON.parse of it throws from now on
AppendTorn ==
  /\ pending # <<>>
  /\ fails < MaxFails
  /\ fails' = fails + 1
  /\ store' = [store EXCEPT ![Head(pending).date] = <<>>]
  /\ unreadable' = unreadable \cup {Head(pending).date}
  /\ tlast' = TOp("false", Head(pending).events, buffer)
  /\ pending' = Tail(pending)
  /\ UNCHANGED <<buffer, flushTimer, timers, initialized, unloadListeners, today,
                 tracked>>
  /\ UNCHANGED <<svars, dvars>>

\* loadTrackerEvents in the main process
loadTrackerEvents(date) == IF date \in unreadable THEN <<>> ELSE store[date]

\* ipcRenderer.invoke rejects: the .catch callback of Tracker.flush runs
AppendReject ==
  /\ pending # <<>>
  /\ fails < MaxFails
  /\ fails' = fails + 1
  /\ buffer' = Requeue(buffer, Head(pending).events)
  /\ tlast' = TOp("reject", Head(pending).events, buffer)
  /\ pending' = Tail(pending)
  /\ UNCHANGED <<flushTimer, timers, initialized, unloadListeners, today, tracked,
                 store, unreadable>>
  /\ UNCHANGED <<svars, dvars>>

TNext ==
  \/ TrackerInit
  \/ TrackerDestroy
  \/ TrackerTrack
  \/ TimerFlush
  \/ UnloadFlush
  \/ Midnight
  \/ AppendOk
  \/ AppendFalse
  \/ AppendTorn
  \/ AppendReject

\* ------------------------------------------------- initial state
NoCmd(name) ==
  [cmd |-> name, arg |-> <<>>, src |-> "", phase |-> "none", flow |-> FALSE,
   same |-> TRUE, sid |-> 0]

\* the App state after mount, the tasks loaded each having the subtasks subs
SInitWith(subs) ==
  /\ scaffoldTaskId = ""
  /\ session = NoSession
  /\ sessionIdRef = 0
  /\ isWidgetMode = FALSE
  /\ pivotData = NoPivot
  /\ loadingPivot = FALSE
  /\ inflight = {}
  /\ aiConfig = "unset"
  /\ emitted = <<>>
  /\ obs = NoObs
  /\ now = 0
  /\ nextSid = 0
  /\ nextReq = 0
  /\ last = NoCmd("init")
  /\ tasks = [t \in Tasks |-> subs]

\* a task list without subtasks
SInit == SInitWith(<<>>)

\* no summary asked for
DInit ==
  /\ dayEvents = <<>>
  /\ summary = NoSummary
  /\ context = <<>>
  /\ builds = 0

Init == SInit /\ TInit /\ DInit

\* a task list whose task is decomposed into MaxSubtasks open subtasks
InitSubtasks ==
  SInitWith([i \in 1..MaxSubtasks |-> FALSE]) /\ TInit /\ DInit

\* ------------------------------------------------- steps
SidOf(s) == IF s = NoSession THEN 0 ELSE s.sessionId

\* the record of the command just issued: where it was issued and what the
\* handler result res did
Cmd(name, arg, src, res) ==
  [cmd |-> name, arg |-> arg, src |-> src, phase |-> session.phase,
   flow |-> FlowOf(session), same |-> (res.s = session),
   sid |-> SidOf(session)]

\* tracker.track called for each of evs in turn, as the observer sees it
Emit(evs) ==
  /\ emitted' = evs
  /\ obs' = Stamped(ObserveAll(obs, evs), evs, now)

\* a handler result applied to the App state, followed by the re-render of
\* the panel
ApplyT(name, arg, src, res, ts) ==
  /\ session' = res.s
  /\ tasks' = ts
  /\ Emit(res.ev)
  /\ pivotData' = PanelPivotData(session, res.s, pivotData)
  /\ loadingPivot' = PanelLoading(session, res.s, loadingPivot)
  /\ last' = Cmd(name, arg, src, res)
  /\ UNCHANGED <<tvars, dvars>>

\* a handler result that leaves the task list alone
Apply(name, arg, src, res) == ApplyT(name, arg, src, res, tasks)

\* Date.now() advances
Tick ==
  /\ now + TickMs <= MaxNow
  /\ now' = now + TickMs
  /\ last' = NoCmd("tick")
  /\ UNCHANGED <<tvars, dvars, tasks>>
  /\ UNCHANGED <<scaffoldTaskId, session, sessionIdRef, isWidgetMode,
                 pivotData, loadingPivot, inflight, aiConfig, emitted, obs,
                 nextSid, nextReq>>

\* loadData / handleSaveAIConfig: setAIConfig
SetAIConfig(cfg) ==
  /\ ~isWidgetMode
  /\ cfg # aiConfig
  /\ aiConfig' = cfg
  /\ last' = NoCmd("setAIConfig")
  /\ UNCHANGED <<tvars, dvars, tasks>>
  /\ UNCHANGED <<scaffoldTaskId, session, sessionIdRef, isWidgetMode,
                 pivotData, loadingPivot, inflight, emitted, obs, now, nextSid,
                 nextReq>>

\* handleFocusTask as a step
DoFocusTask(id) ==
  /\ scaffoldTaskId' = id
  /\ Apply("startScaffolding", <<>>, "", R(session, FocusEvents(id)))
  /\ UNCHANGED <<sessionIdRef, isWidgetMode, inflight, aiConfig, now, nextSid,
                 nextReq>>

\* FocusFlow onCancel: setScaffoldTaskId(null)
CancelFocus ==
  /\ ~isWidgetMode
  /\ scaffoldTaskId # ""
  /\ scaffoldTaskId' = ""
  /\ last' = NoCmd("cancel")
  /\ UNCHANGED <<tvars, dvars, tasks>>
  /\ UNCHANGED <<session, sessionIdRef, isWidgetMode, pivotData, loadingPivot,
                 inflight, aiConfig, emitted, obs, now, nextSid, nextReq>>

\* handleStartMicro as a step
DoStartMicro(microTask, source) ==
  /\ nextSid < MaxSessions
  /\ IF scaffoldTaskId \notin Tasks
     THEN /\ Apply("confirmFirstAction", microTask, source, R(session, <<>>))
          /\ UNCHANGED <<scaffoldTaskId, sessionIdRef, isWidgetMode, nextSid>>
     ELSE LET sid == nextSid + 1 IN
          /\ scaffoldTaskId' = ""
          /\ nextSid' = sid
          /\ sessionIdRef' = sid
          /\ Apply("confirmFirstAction", microTask, source,
                   R(NewSession(sid, scaffoldTaskId, microTask, now)
                       @@ SubtaskFields(tasks[scaffoldTaskId]),
                     StartEvents(sid, scaffoldTaskId, microTask, source)))
          /\ isWidgetMode' = TRUE
  /\ UNCHANGED <<inflight, aiConfig, now, nextReq>>

\* a handler that touches only the session and the log
DoSession(name, arg, src, res) ==
  /\ Apply(name, arg, src, res)
  /\ UNCHANGED <<scaffoldTaskId, sessionIdRef, isWidgetMode, inflight,
                 aiConfig, now, nextSid, nextReq>>

DoMicroComplete ==
  /\ IF session = NoSession THEN TRUE
     ELSE Len(session.microHistory) < MaxHistory
  /\ DoSession("completeAction", <<>>, "",
               handleMicroComplete(session, sessionIdRef, now))

DoNextMicro(micro) ==
  DoSession("advanceTo", micro, "",
            handleNextMicro(session, sessionIdRef, now, micro))

DoStuck ==
  DoSession("requestUnstuck", <<>>, "",
            handleStuck(session, sessionIdRef, now))

DoResume(newMicro) ==
  DoSession("resume", newMicro, "",
            handleResume(session, sessionIdRef, now, newMicro))

DoEnterFlow ==
  DoSession("enterFlow", <<>>, "",
            handleEnterFlow(session, sessionIdRef, now))

DoPivotResume(newMicro, pivotSource) ==
  DoSession("choosePivot", newMicro, pivotSource,
            handlePivotResume(session, sessionIdRef, now, newMicro,
                              pivotSource))

\* handleTaskDone as a step
DoTaskDone ==
  /\ ApplyT("finishTask", <<>>, "",
            handleTaskDone(session, sessionIdRef, now),
            TasksAfterTaskDone(session, tasks))
  /\ isWidgetMode' = IF session = NoSession THEN isWidgetMode ELSE FALSE
  /\ UNCHANGED <<scaffoldTaskId, sessionIdRef, inflight, aiConfig, now,
                 nextSid, nextReq>>

\* handleSubtaskDone as a step
DoSubtaskDone == \E eager \in BOOLEAN :
  /\ IF session = NoSession THEN TRUE
     ELSE Len(session.microHistory) < MaxHistory
  /\ ApplyT("subtaskDone", <<>>, "",
            handleSubtaskDone(session, sessionIdRef, tasks, eager),
            TasksAfterSubtaskDone(session, tasks))
  /\ UNCHANGED <<scaffoldTaskId, sessionIdRef, isWidgetMode, inflight,
                 aiConfig, now, nextSid, nextReq>>

\* handleExitWidget as a step
DoExitWidget ==
  /\ Apply("exit", <<>>, "", handleExitWidget(session, sessionIdRef, now))
  /\ isWidgetMode' = FALSE
  /\ UNCHANGED <<scaffoldTaskId, sessionIdRef, inflight, aiConfig, now,
                 nextSid, nextReq>>

\* onWidgetExit listener: the main process left widget mode
OnWidgetExit ==
  /\ isWidgetMode
  /\ Apply("widgetExit", <<>>, "", R(NoSession, <<>>))
  /\ isWidgetMode' = FALSE
  /\ UNCHANGED <<scaffoldTaskId, sessionIdRef, inflight, aiConfig, now,
                 nextSid, nextReq>>

\* onWidgetEnter listener: the main process entered widget mode
OnWidgetEnter ==
  /\ ~isWidgetMode
  /\ isWidgetMode' = TRUE
  /\ last' = NoCmd("widgetEnter")
  /\ UNCHANGED <<tvars, dvars, tasks>>
  /\ UNCHANGED <<scaffoldTaskId, session, sessionIdRef, pivotData,
                 loadingPivot, inflight, aiConfig, emitted, obs, now, nextSid, nextReq>>

\* handleSubmitStuckReason as a step: the event, onStuckToB, the panel
\* setters and the advisor call; an answer that needs no request settles
\* before any other callback runs
SubmitStuckReasonStep(reason, reasonSource, maxReq) ==
  LET res == handleSubmitStuckReason(session, reason, reasonSource)
      r == [id |-> nextReq + 1, sessionId |-> session.sessionId,
            taskId |-> session.taskId, cfg |-> aiConfig]
      out == generatePivotResponse(aiConfig, [error |-> TRUE])
  IN
  /\ session' = res.s
  /\ IF Trim(reason) = <<>>
     THEN /\ Emit(<<>>)
          /\ last' = Cmd("submitReason", reason, reasonSource, res)
          /\ UNCHANGED <<pivotData, loadingPivot, inflight, nextReq>>
     ELSE /\ nextReq < maxReq
          /\ nextReq' = nextReq + 1
          /\ IF AnswersAtOnce(aiConfig)
             THEN /\ Emit(res.ev \o OfferedEvents(r, out))
                  /\ pivotData' = SettledPivotData(r, out, res.s, NoPivot)
                  /\ loadingPivot' = SettledLoading(r, res.s, TRUE)
                  /\ last' = Cmd("submitReason", reason, reasonSource, res)
                  /\ UNCHANGED inflight
             ELSE /\ Emit(res.ev)
                  /\ pivotData' = NoPivot
                  /\ loadingPivot' = TRUE
                  /\ inflight' = inflight \cup {r}
                  /\ last' = Cmd("submitReason", reason, reasonSource, res)
  /\ UNCHANGED <<scaffoldTaskId, sessionIdRef, isWidgetMode, aiConfig, now,
                 nextSid>>
  /\ UNCHANGED <<tvars, dvars, tasks>>

\* handleSubmitStuckReason as a step of the running program
DoSubmitStuckReason(reason, reasonSource) ==
  SubmitStuckReasonStep(reason, reasonSource, MaxRequests)

\* the advisor answers request r: the .then / .catch callbacks of
\* handleSubmitStuckReason
AdvisorAnswer(r, llm) ==
  LET out == generatePivotResponse(r.cfg, llm) IN
  /\ inflight' = inflight \ {r}
  /\ Emit(OfferedEvents(r, out))
  /\ pivotData' = SettledPivotData(r, out, session, pivotData)
  /\ loadingPivot' = SettledLoading(r, session, loadingPivot)
  /\ last' = [cmd |-> "advisor", arg |-> <<>>, src |-> LLMClass(llm),
              phase |-> session.phase, flow |-> FlowOf(session),
              same |-> TRUE,
              sid |-> r.sessionId]
  /\ UNCHANGED <<tvars, dvars, tasks>>
  /\ UNCHANGED <<scaffoldTaskId, session, sessionIdRef, isWidgetMode,
                 aiConfig, now, nextSid, nextReq>>

\* ------------------------------------------------- the running program
\* Commands as the rendered views offer them: the main view (FocusFlow
\* overlay), the LegacyWidget and the four renders of FocusDynamicBar.
InPhase(p) == isWidgetMode /\ session # NoSession /\ session.phase = p

\* NoteEditor play button / start button
ClickFocusTask == \E id \in Tasks :
  /\ ~isWidgetMode /\ scaffoldTaskId = ""
  /\ DoFocusTask(id)

\* FocusFlow handleStart
ClickStart == \E text \in Texts, source \in {"self", "ai_chip"} :
  /\ ~isWidgetMode /\ scaffoldTaskId # ""
  /\ Trim(text) # <<>>
  /\ DoStartMicro(Trim(text), source)

\* executing render: the complete button
ClickComplete ==
  /\ InPhase("executing")
  /\ IF session.isFlowMode THEN DoTaskDone ELSE DoMicroComplete

\* executing render: the stuck button, shown outside flow mode
ClickStuck ==
  /\ InPhase("executing") /\ ~session.isFlowMode
  /\ DoStuck

\* every render: the exit button (Escape in the stuck inputs)
ClickExit ==
  /\ isWidgetMode
  /\ DoExitWidget

\* stuck_a render: a predicted chip
ClickStuckChip == \E chip \in Texts :
  /\ InPhase("stuck_a")
  /\ DoSubmitStuckReason(chip, "ai_chip")

\* stuck_a render: the free input
SubmitStuckInput == \E text \in Texts :
  /\ InPhase("stuck_a")
  /\ Trim(text) # <<>>
  /\ DoSubmitStuckReason(Trim(text), "self")

\* stuck_a and stuck_b render: the continue link, onResume(currentMicroTask)
ClickContinueOriginal ==
  /\ InPhase("stuck_a") \/ InPhase("stuck_b")
  /\ DoResume(session.currentMicroTask)

\* stuck_b render: a pivot chip
ClickPivotChip ==
  /\ InPhase("stuck_b")
  /\ ~loadingPivot /\ pivotData # NoPivot
  /\ \E i \in DOMAIN pivotData.pivots :
       DoPivotResume(pivotData.pivots[i], "ai_chip")

\* stuck_b render: the free input
SubmitPivotInput == \E text \in Texts :
  /\ InPhase("stuck_b")
  /\ Trim(text) # <<>>
  /\ DoPivotResume(text, "self")

\* relay render: handleContinue
ClickContinue == \E text \in Texts :
  /\ InPhase("relay")
  /\ Trim(text) # <<>>
  /\ DoNextMicro(Trim(text))

\* relay render: the flow button
ClickEnterFlow ==
  /\ InPhase("relay")
  /\ DoEnterFlow

Advisor == \E r \in inflight, llm \in LLMResults : AdvisorAnswer(r, llm)

ChangeAIConfig == \E cfg \in AIConfigs : SetAIConfig(cfg)

Next ==
  \/ Tick
  \/ ChangeAIConfig
  \/ ClickFocusTask
  \/ CancelFocus
  \/ ClickStart
  \/ ClickComplete
  \/ ClickStuck
  \/ ClickExit
  \/ ClickStuckChip
  \/ SubmitStuckInput
  \/ ClickContinueOriginal
  \/ ClickPivotChip
  \/ SubmitPivotInput
  \/ ClickContinue
  \/ ClickEnterFlow
  \/ OnWidgetEnter
  \/ OnWidgetExit
  \/ Advisor

Spec == Init /\ [][Next]_vars


\* ------------------------------------------------- the handlers as commands
\* The same handlers called as the controller's commands, in any phase and
\* without a session, not only where a render offers them.  A panel handler
\* needs a mounted panel; without a session the command reaches only the
\* App callback it would have called.
\* the texts handed to a command: a blank one and one that needs trimming
ApiTexts == {<<" ">>, <<" ", "b", " ">>}

ApiCompleteAction == DoMicroComplete

ApiAdvanceTo == \E text \in ApiTexts : DoNextMicro(text)

ApiRequestUnstuck == DoStuck

ApiSubmitReason == \E text \in ApiTexts, source \in {"self", "ai_chip"} :
  IF session = NoSession
  THEN DoSession("submitReason", text, source, handleStuckToB(session))
  ELSE DoSubmitStuckReason(text, source)

ApiResume == \E text \in ApiTexts :
  DoResume(IF session = NoSession THEN text ELSE session.currentMicroTask)

ApiChoosePivot == \E text \in ApiTexts, source \in {"self", "ai_chip"} :
  IF session = NoSession
  THEN DoSession("choosePivot", text, source,
                 handleResume(session, sessionIdRef, now, text))
  ELSE DoPivotResume(text, source)

ApiEnterFlow == DoEnterFlow

ApiFinishTask == DoTaskDone

ApiExit == DoExitWidget

\* onSubtaskDone, the handler App hands to the widget view
ApiSubtaskDone == DoSubtaskDone

NextApi ==
  \/ ClickFocusTask
  \/ ClickStart
  \/ ApiCompleteAction
  \/ ApiAdvanceTo
  \/ ApiRequestUnstuck
  \/ ApiSubmitReason
  \/ ApiResume
  \/ ApiChoosePivot
  \/ ApiEnterFlow
  \/ ApiFinishTask
  \/ ApiExit

SpecApi == Init /\ [][NextApi]_vars

\* the commands of a session on a decomposed task: the handlers App hands to
\* the widget view that start, advance, close a subtask, finish and leave
NextSubtasks ==
  \/ ClickFocusTask
  \/ ClickStart
  \/ ApiCompleteAction
  \/ ApiAdvanceTo
  \/ ApiSubtaskDone
  \/ ApiFinishTask
  \/ ApiExit

SpecSubtasks == InitSubtasks /\ [][NextSubtasks]_vars

\* the tracker and the event store on their own
SpecTracker == Init /\ [][TNext]_vars

\* Tracker.track, as one of a burst of calls
BurstTrack ==
  /\ tracked < MaxBurst
  /\ TrackStep

\* a burst of track() calls within one flush interval (the timer does not
\* fire and the window stays open), with or without init() before or
\* during it, while the appends it causes are answered
BurstNext ==
  \/ TrackerInit
  \/ BurstTrack
  \/ Midnight
  \/ AppendOk
  \/ AppendFalse
  \/ AppendTorn
  \/ AppendReject

SpecBurst == Init /\ [][BurstNext]_vars

\* what the advisor service returns for the request with the given id: an
\* answer to the reason of that request, unlike the answer to any other
ReplyTo(id) ==
  [error |-> FALSE,
   content |-> [kind |-> "object", empathy |-> <<"e1", "e2", "e3">>[id],
                isArray |-> TRUE, pivots |-> << <<"a">> >>]]

\* loadData: the stored advisor configuration is complete
ConfigureAI == SetAIConfig("ok")

\* stuck_a render: a reason is submitted while earlier requests may be out
PivotSubmit ==
  /\ InPhase("stuck_a")
  /\ SubmitStuckReasonStep(<<"a">>, "self", MaxPivotRequests)

\* the advisor answers one of the outstanding requests, in any order
PivotAnswer == \E r \in inflight : AdvisorAnswer(r, ReplyTo(r.id))

\* getting stuck, giving a reason, resuming and getting stuck again while
\* the advisor's answers are outstanding
PivotNext ==
  \/ ConfigureAI
  \/ ClickFocusTask
  \/ ClickStart
  \/ ClickStuck
  \/ PivotSubmit
  \/ ClickContinueOriginal
  \/ ClickExit
  \/ PivotAnswer

SpecPivot == Init /\ [][PivotNext]_vars

\* init() and destroy() called in any order on the exported tracker while
\* events are tracked, the timer fires and appends are answered
LifecycleNext ==
  \/ TrackerInit
  \/ DestroyStep
  \/ TrackerTrack
  \/ TimerFlush
  \/ AppendOk
  \/ AppendReject

SpecLifecycle == Init /\ [][LifecycleNext]_vars


\* ------------------------------------------------- properties
Count(evs, types) == Cardinality({i \in DOMAIN evs : evs[i].type \in types})

PhaseLegal == session = NoSession \/ session.phase \in Phases

\* the transition graph: from phase p to phase q by command c
EdgeAllowed(p, q, c) ==
  \/ p = "none" /\ q = "executing" /\ c = "confirmFirstAction"
  \/ p = "executing" /\ q = "relay" /\ c = "completeAction"
  \/ p = "executing" /\ q = "stuck_a" /\ c = "requestUnstuck"
  \/ p = "relay" /\ q = "executing" /\ c \in {"advanceTo", "enterFlow"}
  \/ p = "stuck_a" /\ q = "stuck_b" /\ c = "submitReason"
  \/ p = "stuck_a" /\ q = "executing" /\ c = "resume"
  \/ p = "stuck_b" /\ q = "executing" /\ c \in {"choosePivot", "resume"}
  \/ p \in Phases /\ q = "none" /\ c \in {"exit", "finishTask", "widgetExit"}

Defines(c, p, flow) ==
  \/ c = "completeAction" /\ p = "executing" /\ ~flow
  \/ c = "requestUnstuck" /\ p = "executing" /\ ~flow
  \/ c = "finishTask" /\ p = "executing" /\ flow
  \/ c \in {"advanceTo", "enterFlow"} /\ p = "relay"
  \/ c = "submitReason" /\ p = "stuck_a"
  \/ c = "resume" /\ p \in {"stuck_a", "stuck_b"}
  \/ c = "choosePivot" /\ p = "stuck_b"

GuardedCommands ==
  {"completeAction", "advanceTo", "requestUnstuck", "submitReason",
   "choosePivot", "resume", "enterFlow", "finishTask"}

\* C3: a command issued without a session, or in a phase that does not
\* define it, leaves the session unchanged and tracks no event.
C3_IllegalNoOp ==
  (last.cmd \in GuardedCommands /\ ~Defines(last.cmd, last.phase, last.flow))
    => (last.same /\ emitted = <<>>)

\* C4: every exec.micro_completed follows an exec.micro_started of its
\* session with no other exec.micro_completed of that session in between.
C4_OneCompletionPerStart == "completed_unstarted" \notin obs.broken

\* C5: the answer to a pivot request whose session is no longer the
\* current one tracks no event, and no stuck.pivot_offered follows the
\* session.ended of its session.
C5_StaleDropped ==
  /\ (last.cmd = "advisor" /\ last.sid # SidOf(session)) => emitted = <<>>
  /\ "offered_after_end" \notin obs.broken

\* C6: exit is offered whenever a session exists; issued with a session it
\* tracks exactly one session.ended (endReason exit, the session's id),
\* before it exactly one abandon.exit when the phase was executing and none
\* otherwise, nothing else, and leaves no session.
C6_Exit ==
  /\ session # NoSession => ENABLED ClickExit
  /\ (last.cmd = "exit" /\ last.phase # "none") =>
       /\ session = NoSession
       /\ Count(emitted, {"session.ended"}) = 1
       /\ Count(emitted, {"abandon.exit"})
            = (IF last.phase = "executing" THEN 1 ELSE 0)
       /\ Len(emitted) = (IF last.phase = "executing" THEN 2 ELSE 1)
       /\ emitted[Len(emitted)].type = "session.ended"
       /\ emitted[Len(emitted)].info = "exit"
       /\ \A i \in DOMAIN emitted : emitted[i].sessionId = last.sid

C6_Witness ==
  /\ last.cmd = "exit" /\ last.phase = "executing"
  /\ inflight # {}
  /\ Count(emitted, {"abandon.exit"}) = 1

\* C9: a pivot choice in stuck_b with a non-blank label, whatever its
\* source, tracks exactly stuck.pivot_chosen (that label, that source) and
\* then exec.micro_started (that label), and leaves the session executing
\* the chosen label.
C9_ChoosePivot ==
  (last.phase = "stuck_b" /\ last.cmd \in {"choosePivot", "resume"}
     /\ Trim(last.arg) # <<>>) =>
    /\ Len(emitted) = 2
    /\ emitted[1].type = "stuck.pivot_chosen"
    /\ emitted[1].text = Trim(last.arg)
    /\ emitted[1].info
         = (IF last.cmd = "resume" THEN "resume_original" ELSE last.src)
    /\ emitted[2].type = "exec.micro_started"
    /\ emitted[2].microAction = Trim(last.arg)
    /\ session # NoSession
    /\ session.phase = "executing"
    /\ session.currentMicroTask = Trim(last.arg)

MicroAndStuckEvents ==
  {"exec.micro_started", "exec.micro_completed", "stuck.triggered",
   "stuck.reason", "stuck.pivot_offered", "stuck.pivot_chosen"}

\* C10: in flow mode the phase is executing, no micro-action or stuck event
\* is tracked, and only finishTask and exit change the session.
C10_FlowMode ==
  /\ FlowOf(session) => session.phase = "executing"
  /\ last.flow => Count(emitted, MicroAndStuckEvents) = 0
  /\ (last.flow /\ ~last.same)
       => last.cmd \in {"finishTask", "exit", "widgetExit"}


FailureClasses == {"error", "text", "non_string", "object_malformed"}

\* the answer just settled belonged to the panel that is still mounted
AnsweredMounted ==
  last.cmd = "advisor" /\ session # NoSession /\ last.sid = session.sessionId

C8_AdvisorStates ==
  /\ PhaseLegal
  /\ (last.cmd = "submitReason" /\ last.phase = "stuck_a"
        /\ Trim(last.arg) # <<>>) => session.phase = "stuck_b"
  /\ last.cmd = "advisor" => session.phase = last.phase
  /\ (AnsweredMounted /\ last.src \in FailureClasses \ {"non_string"}) =>
       (pivotData # NoPivot /\ pivotData.pivots = <<>>)
  /\ (AnsweredMounted /\ last.src \in {"error", "text"}) => pivotData.error
  /\ (AnsweredMounted /\ last.src = "object_malformed") => ~pivotData.error
  /\ InPhase("stuck_b") =>
       /\ ENABLED SubmitPivotInput
       /\ ENABLED ClickContinueOriginal
       /\ ENABLED ClickExit

TrackedIds == 1..tracked

\* the places of event id n in the log of date d
Places(n, d) == {i \in DOMAIN store[d] : store[d][i].id = n}

\* event n is in the log of its date exactly once and in no other log
PersistedOnce(n) ==
  /\ \E d \in DateSet :
       /\ Cardinality(Places(n, d)) = 1
       /\ \A i \in Places(n, d) : store[d][i].date = d
  /\ Cardinality({d \in DateSet : Places(n, d) # {}}) = 1

\* nothing is buffered and no append is outstanding
Settled == buffer = <<>> /\ pending = <<>>

\* C1: once the tracker has nothing left to deliver, every tracked event is
\* in the log of its date exactly once, however many appends failed before.
C1_FlushRetry == Settled => \A n \in TrackedIds : PersistedOnce(n)

\* C7: the events of an append that failed are put back in front of the
\* events that were buffered meanwhile.
C7_RequeueFront ==
  tlast.op = "reject" => buffer = tlast.events \o tlast.before


\* ------------------------------------------------- C11..C20
\* C11: finishTask in flow mode tracks exactly exec.flow_ended (task_done),
\* session.macro_completed (flow) and session.ended (task_done) in that
\* order, the first and the last with the session's id (the middle one has
\* no session field) and all with one task, and leaves no session; no
\* session gets a second session.ended or an abandon.exit after its end.
C11_FinishTask ==
  /\ (last.cmd = "finishTask" /\ last.phase = "executing" /\ last.flow) =>
       /\ session = NoSession
       /\ Len(emitted) = 3
       /\ emitted[1].type = "exec.flow_ended"
       /\ emitted[1].info = "task_done"
       /\ emitted[2].type = "session.macro_completed"
       /\ emitted[2].info = "flow"
       /\ emitted[3].type = "session.ended"
       /\ emitted[3].info = "task_done"
       /\ emitted[1].sessionId = last.sid
       /\ emitted[3].sessionId = last.sid
       /\ \A i \in 1..3 : emitted[i].taskId \in Tasks
                            /\ emitted[i].taskId = emitted[1].taskId
  /\ "ended_twice" \notin obs.broken
  /\ "abandon_after_end" \notin obs.broken

C11_Witness ==
  /\ last.cmd = "finishTask" /\ last.phase = "executing" /\ last.flow
  /\ last.sid \in obs.ended
  /\ Len(emitted) = 3


\* the event kinds whose payload has a sessionId field
SessionTyped ==
  {"exec.micro_started", "exec.micro_completed", "exec.flow_entered",
   "exec.flow_ended", "stuck.triggered", "stuck.reason",
   "stuck.pivot_offered", "stuck.pivot_chosen", "abandon.exit",
   "session.started", "session.ended"}

\* the session a step was about: the one it found, or the one it created
StepSid == IF last.cmd = "confirmFirstAction" THEN SidOf(session) ELSE last.sid

\* the steps that leave the events of an earlier step in place
Silent == last.cmd \in {"init", "tick", "setAIConfig", "cancel", "widgetEnter"}

\* the state part of C12
C12_IdentityStates ==
  /\ (last.cmd = "confirmFirstAction" /\ ~last.same) =>
       /\ session # NoSession
       /\ session.phase = "executing"
       /\ session.sessionId \in obs.started
       /\ Len(emitted) = 3
       /\ emitted[1].type = "plan.first_micro"
       /\ emitted[2].type = "session.started"
       /\ emitted[3].type = "exec.micro_started"
  /\ "started_twice" \notin obs.broken
  /\ session # NoSession => sessionIdRef = session.sessionId
  /\ ~Silent =>
       \A i \in DOMAIN emitted :
         emitted[i].type \in SessionTyped =>
           (emitted[i].sessionId = StepSid /\ StepSid # 0)

WholeSeconds(n, ms) == n * 1000 <= ms /\ ms < (n + 1) * 1000

\* C13: completeAction in executing outside flow mode tracks exactly one
\* exec.micro_completed for the current micro-action with the whole
\* seconds since its exec.micro_started, appends the label to microHistory
\* and sets the phase to relay.
C13_CompleteAction ==
  [][(last'.cmd = "completeAction" /\ session # NoSession
        /\ session.phase = "executing" /\ ~session.isFlowMode) =>
       /\ Len(emitted') = 1
       /\ emitted'[1].type = "exec.micro_completed"
       /\ emitted'[1].sessionId = session.sessionId
       /\ emitted'[1].microAction = session.currentMicroTask
       /\ obs.microAt >= 0
       /\ WholeSeconds(emitted'[1].seconds, now - obs.microAt)
       /\ session' # NoSession
       /\ session'.phase = "relay"
       /\ Len(session'.microHistory) = Len(session.microHistory) + 1
       /\ \A i \in DOMAIN session.microHistory :
            session'.microHistory[i] = session.microHistory[i]
       /\ session'.microHistory[Len(session'.microHistory)]
            = session.currentMicroTask]_vars

C13_Witness ==
  /\ last.cmd = "completeAction" /\ last.phase = "executing" /\ ~last.flow
  /\ Len(emitted) = 1 /\ emitted[1].seconds = 1
  /\ session # NoSession /\ Len(session.microHistory) = 2
  /\ session.microHistory[1] # session.microHistory[2]


\* what C14 says of a step
C14_Steps ==
  /\ (last'.cmd = "requestUnstuck" /\ session # NoSession
        /\ session.phase = "executing") =>
       /\ Len(emitted') = 1
       /\ emitted'[1].type = "stuck.triggered"
       /\ emitted'[1].sessionId = session.sessionId
       /\ emitted'[1].microAction = session.currentMicroTask
       /\ obs.microAt >= 0
       /\ WholeSeconds(emitted'[1].seconds, now - obs.microAt)
       /\ session' = [session EXCEPT !.phase = "stuck_a"]
  /\ (last'.cmd = "submitReason" /\ session # NoSession
        /\ session.phase = "stuck_a") =>
       IF Trim(last'.arg) = <<>>
       THEN emitted' = <<>> /\ session' = session
       ELSE /\ Count(emitted', {"stuck.reason"}) = 1
            /\ emitted'[1].type = "stuck.reason"
            /\ emitted'[1].sessionId = session.sessionId
            /\ emitted'[1].microAction = session.currentMicroTask
            /\ emitted'[1].text = Trim(last'.arg)
            /\ session' = [session EXCEPT !.phase = "stuck_b"]

\* C14: requestUnstuck in executing tracks exactly one stuck.triggered with
\* the whole seconds since the micro-action was started and moves to
\* stuck_a; submitReason in stuck_a with a non-blank reason tracks exactly
\* one stuck.reason for the same session and micro-action and moves to
\* stuck_b, with a blank reason it does nothing; every stuck.reason follows
\* the stuck.triggered of its session and micro-action.
C14_StuckSequence ==
  /\ []("reason_untriggered" \notin obs.broken)
  /\ [][C14_Steps]_vars

C14_Witness ==
  /\ last.cmd = "submitReason" /\ last.phase = "stuck_a"
  /\ Trim(last.arg) # <<>>
  /\ session # NoSession /\ session.phase = "stuck_b"
  /\ obs.stuckOf = <<session.sessionId, session.currentMicroTask>>
  /\ now = 1000

\* a blank reason reached the handler and was ignored
C14_WitnessBlank ==
  /\ last.cmd = "submitReason" /\ last.phase = "stuck_a"
  /\ Trim(last.arg) = <<>> /\ last.same


\* the events of a sequence, and of a sequence of append calls
EventsOf(evs) == {evs[i] : i \in DOMAIN evs}

HandedOver(calls) ==
  UNION {EventsOf(calls[i].events) : i \in DOMAIN calls}

\* the calls added to pending by the step
NewCalls == SubSeq(pending', Len(pending) + 1, Len(pending'))

\* C15: a track() that leaves at least FLUSH_THRESHOLD (10) events in the
\* buffer flushes within the call: the buffer is empty afterwards and every
\* one of those events is in an append call issued by it, each call holding
\* the events of one date; below the threshold track() appends its event to
\* the buffer and issues no call.
C15_ThresholdFlush ==
  [][tlast'.op = "track" =>
       /\ FLUSH_THRESHOLD = 10
       /\ SubSeq(pending', 1, Len(pending)) = pending
       /\ IF Len(buffer) + 1 >= 10
          THEN /\ buffer' = <<>>
               /\ HandedOver(NewCalls) = EventsOf(buffer) \cup EventsOf(tlast'.events)
               /\ \A i \in DOMAIN NewCalls :
                    \A j \in DOMAIN NewCalls[i].events :
                      NewCalls[i].events[j].date = NewCalls[i].date
          ELSE /\ buffer' = buffer \o tlast'.events
               /\ pending' = pending]_vars

\* a threshold flush of events of two dates
C15_Witness ==
  /\ tlast.op = "track" /\ Len(tlast.before) = 9
  /\ buffer = <<>>
  /\ Len(pending) = 2
  /\ Len(pending[1].events) + Len(pending[2].events) = 10

\* a threshold flush of a buffer that a requeue had filled beyond 10
C15_WitnessRequeued ==
  /\ tlast.op = "track" /\ Len(tlast.before) = 10
  /\ buffer = <<>> /\ pending # <<>>

\* C16: a track() on a tracker that is not initialised only enqueues: it
\* issues no append, however many events were tracked.
C16_TrackWithoutLifecycle ==
  [][(tlast'.op = "track" /\ ~initialized) =>
       (buffer' = buffer \o tlast'.events /\ pending' = pending)]_vars


\* destroy() has run and init() has not run again
Destroyed == ~initialized /\ unloadListeners > 0

\* event e is in the log of its date or in an append that is under way
Delivered(e) ==
  \/ e \in EventsOf(store[e.date])
  \/ e \in HandedOver(pending)

\* C17: destroy() hands every buffered event to append, empties the buffer,
\* clears the timer and leaves the tracker uninitialised; an append that
\* fails after destroy() does not leave its events undelivered.
C17_Destroy ==
  /\ tlast.op = "destroy" =>
       /\ buffer = <<>> /\ ~flushTimer /\ ~initialized
       /\ EventsOf(tlast.before) \subseteq HandedOver(pending)
  /\ (Destroyed /\ tlast.op \in {"false", "reject"}) =>
       \A e \in EventsOf(tlast.events) : Delivered(e)


\* the log of date d as read from the files files with the dates un
\* unreadable
ReadLog(files, un, d) == IF d \in un THEN <<>> ELSE files[d]

\* what C18 says of an answered append call
C18_Appends ==
  tlast'.op \in {"ok", "false"} =>
    LET date == tlast'.events[1].date
        before == ReadLog(store, unreadable, date)
        after == ReadLog(store', unreadable', date)
    IN /\ after = (IF tlast'.op = "ok" THEN before \o tlast'.events
                   ELSE before)
       /\ \A d \in DateSet \ {date} :
            ReadLog(store', unreadable', d) = ReadLog(store, unreadable, d)

\* C18: an append that reports success leaves the log of its date as the
\* previous log followed by its events, one that reports failure leaves it
\* as it was; the logs of other dates are untouched by either, no other
\* step changes a log, and a date never written reads as the empty list.
C18_AllOrNothing ==
  /\ [](today = 1 => loadTrackerEvents(Dates[2]) = <<>>)
  /\ [][C18_Appends]_vars
  /\ [][tlast'.op \notin {"ok", "false"} =>
          \A d \in DateSet :
            ReadLog(store', unreadable', d) = ReadLog(store, unreadable, d)]_vars


\* ------------------------------------------------- the daily summary
\* filterByType
filterByType(events, type) ==
  SelectSeq(events, LAMBDA e : e.type = type)

\* the record pushed for an exec.micro_completed event; an optional number
\* is <<>> when absent and <<n>> when present
CompletedEntry(e) ==
  [microAction |-> e.microAction, actualSeconds |-> e.seconds,
   estimatedSeconds |-> e.estimatedSeconds,
   timeDeltaSeconds |-> IF e.estimatedSeconds # <<>>
                        THEN <<e.seconds - e.estimatedSeconds[1]>> ELSE <<>>,
   status |-> "completed"]

\* the record pushed for a stuck.triggered event
StuckEntry(e) ==
  [microAction |-> e.microAction, actualSeconds |-> e.seconds,
   estimatedSeconds |-> <<>>, timeDeltaSeconds |-> <<>>, status |-> "stuck"]

\* the record pushed for an abandon.exit event
AbandonedEntry(e) ==
  [microAction |-> e.microAction, actualSeconds |-> e.seconds,
   estimatedSeconds |-> <<>>, timeDeltaSeconds |-> <<>>,
   status |-> "abandoned"]

\* buildDailySummary, section 2: the three loops that push onto
\* microStepTrail
microStepTrail(events) ==
  LET microCompleted == filterByType(events, "exec.micro_completed")
      stuckTriggered == filterByType(events, "stuck.triggered")
      abandonExits == filterByType(events, "abandon.exit")
  IN [i \in 1..Len(microCompleted) |-> CompletedEntry(microCompleted[i])]
     \o [i \in 1..Len(stuckTriggered) |-> StuckEntry(stuckTriggered[i])]
     \o [i \in 1..Len(abandonExits) |-> AbandonedEntry(abandonExits[i])]

\* Array.prototype.find: the first of the indices whose elements satisfy the
\* callback, 0 = undefined
Find(hits) ==
  IF hits = {} THEN 0 ELSE CHOOSE i \in hits : \A j \in hits : i <= j

\* arr[arr.length - 1] wrapped as an optional: <<>> = undefined
Latest(s) == IF s = <<>> THEN <<>> ELSE <<s[Len(s)]>>

\* toISO: the ISO string of a timestamp
toISO(ts) == [iso |-> ts]

\* Math.round(n / 60)
RoundMinutes(n) == (n + 30) \div 60

\* Math.round(sum / count), count > 0
RoundDiv(sum, count) == (2 * sum + count) \div (2 * count)

RECURSIVE Sum(_)
\* reduce((a, b) => a + b, 0)
Sum(s) == IF s = <<>> THEN 0 ELSE Head(s) + Sum(Tail(s))

\* buildDailySummary, section 1: planning
planning(events) ==
  LET latestDump == Latest(filterByType(events, "plan.brain_dump"))
      latestFocus == Latest(filterByType(events, "plan.focus_selected"))
      latestFirstMicro == Latest(filterByType(events, "plan.first_micro"))
  IN [brainDumpTasks |-> IF latestDump = <<>> THEN <<>>
                         ELSE latestDump[1].items,
      focusTaskTitle |-> IF latestFocus = <<>> THEN <<>>
                         ELSE <<latestFocus[1].taskTitle>>,
      firstMicroAction |-> IF latestFirstMicro = <<>> THEN <<>>
                           ELSE <<latestFirstMicro[1].microAction>>,
      scaffoldSource |-> IF latestFirstMicro = <<>> THEN <<>>
                         ELSE <<latestFirstMicro[1].text>>]

\* buildDailySummary, section 3: flowEvents
flowEvents(events) ==
  LET flowEntered == filterByType(events, "exec.flow_entered")
      flowEnded == filterByType(events, "exec.flow_ended")
  IN [i \in 1..Len(flowEntered) |->
        LET enter == flowEntered[i]
            end == Find({k \in 1..Len(flowEnded) :
                          flowEnded[k].sessionId = enter.sessionId})
        IN [taskTitle |-> enter.taskTitle,
            triggeredAt |-> toISO(enter.timestamp),
            durationSeconds |-> IF end = 0 THEN 0 ELSE flowEnded[end].seconds,
            lastMicroBeforeFlow |-> enter.microAction]]

\* variant of the pivot search that also accepts a pivot at the reason's time
PivotOf_sameTime(stuckPivots, reason) ==
  Find({k \in 1..Len(stuckPivots) :
          /\ stuckPivots[k].sessionId = reason.sessionId
          /\ stuckPivots[k].timestamp >= reason.timestamp})

\* buildDailySummary, section 4: the stuck.pivot_chosen found for a
\* stuck.reason, as an index into the pivots, 0 = undefined
PivotOf(stuckPivots, reason) ==
  Find({k \in 1..Len(stuckPivots) :
          /\ stuckPivots[k].sessionId = reason.sessionId
          /\ stuckPivots[k].timestamp > reason.timestamp})

\* buildDailySummary, section 4: stuckEvents; rescueSucceeded is <<>> for
\* null and <<b>> for a boolean
stuckEvents(events) ==
  LET stuckReasons == filterByType(events, "stuck.reason")
      stuckPivots == filterByType(events, "stuck.pivot_chosen")
      microCompleted == filterByType(events, "exec.micro_completed")
  IN [i \in 1..Len(stuckReasons) |->
        LET reason == stuckReasons[i]
            pivot == PivotOf(stuckPivots, reason)
            afterPivotComplete ==
              Find({k \in 1..Len(microCompleted) :
                      /\ microCompleted[k].sessionId
                           = stuckPivots[pivot].sessionId
                      /\ microCompleted[k].timestamp
                           > stuckPivots[pivot].timestamp})
        IN [microAction |-> reason.microAction,
            reason |-> reason.text,
            reasonSource |-> reason.source,
            pivotChosen |-> IF pivot = 0 THEN "" ELSE stuckPivots[pivot].text,
            pivotSource |-> IF pivot = 0 THEN "self"
                            ELSE stuckPivots[pivot].source,
            rescueSucceeded |-> IF pivot = 0 THEN <<>>
                                ELSE <<afterPivotComplete # 0>>]]

\* buildDailySummary, section 5: abandonments
abandonments(events) ==
  LET abandonExits == filterByType(events, "abandon.exit")
  IN [i \in 1..Len(abandonExits) |->
        [microAction |-> abandonExits[i].microAction,
         taskTitle |-> abandonExits[i].taskTitle,
         elapsedSeconds |-> abandonExits[i].seconds,
         time |-> toISO(abandonExits[i].timestamp)]]

\* buildDailySummary, section 6: macroTask
macroTask(events) ==
  LET latestFocus == Latest(filterByType(events, "plan.focus_selected"))
      latestMacro == Latest(filterByType(events, "session.macro_completed"))
  IN [title |-> IF latestFocus = <<>> THEN <<>>
                ELSE <<latestFocus[1].taskTitle>>,
      completed |-> latestMacro # <<>>,
      completedVia |-> IF latestMacro = <<>> THEN <<>>
                       ELSE <<latestMacro[1].text>>]

\* buildDailySummary, section 7: leftoverTasks
leftoverTasks(events) ==
  LET latestLeftovers == Latest(filterByType(events, "daily.leftovers"))
  IN IF latestLeftovers = <<>> THEN <<>> ELSE latestLeftovers[1].items

\* buildDailySummary, section 8: stats
stats(events) ==
  LET trail == microStepTrail(events)
      flows == flowEvents(events)
      sessionEnds == filterByType(events, "session.ended")
      deltas == SelectSeq(trail, LAMBDA m : m.timeDeltaSeconds # <<>>)
  IN [totalMicroSteps |-> Len(trail),
      completedMicroSteps |->
        Len(filterByType(events, "exec.micro_completed")),
      totalStuckCount |-> Len(stuckEvents(events)),
      totalFlowMinutes |->
        RoundMinutes(Sum([i \in 1..Len(flows) |-> flows[i].durationSeconds])),
      totalFocusMinutes |->
        RoundMinutes(Sum([i \in 1..Len(sessionEnds) |->
                            sessionEnds[i].seconds])),
      averageTimeDeltaSeconds |->
        IF Len(deltas) > 0
        THEN <<RoundDiv(Sum([i \in 1..Len(deltas) |->
                               deltas[i].timeDeltaSeconds[1]]), Len(deltas))>>
        ELSE <<>>]

\* variant of buildDailySummary that keeps its trail in a module-level array
\* across calls
buildDailySummary_keepsTrail(events) ==
  [built |-> TRUE,
   planning |-> planning(events),
   microStepTrail |-> (IF summary.built THEN summary.microStepTrail
                       ELSE <<>>) \o microStepTrail(events),
   flowEvents |-> flowEvents(events),
   stuckEvents |-> stuckEvents(events),
   abandonments |-> abandonments(events),
   macroTask |-> macroTask(events),
   leftoverTasks |-> leftoverTasks(events),
   stats |-> stats(events)]

\* buildDailySummary(date, events); the date is copied to the result as it is
buildDailySummary(events) ==
  [built |-> TRUE,
   planning |-> planning(events),
   microStepTrail |-> microStepTrail(events),
   flowEvents |-> flowEvents(events),
   stuckEvents |-> stuckEvents(events),
   abandonments |-> abandonments(events),
   macroTask |-> macroTask(events),
   leftoverTasks |-> leftoverTasks(events),
   stats |-> stats(events)]

\* x || fallback for an optional string: null and '' are falsy
OrElse(opt, fallback) ==
  IF opt = <<>> THEN fallback ELSE IF opt[1] = "" THEN fallback ELSE opt[1]

\* summaryToLLMContext: the lines of the trail section
TrailLines(sm) ==
  [i \in 1..Len(sm.microStepTrail) |->
     LET step == sm.microStepTrail[i] IN
     [line |-> "step",
      mark |-> IF step.status = "completed" THEN "done"
               ELSE IF step.status = "stuck" THEN "sos" ELSE "cross",
      text |-> step.microAction,
      mins |-> RoundMinutes(step.actualSeconds),
      delta |-> IF step.timeDeltaSeconds # <<>>
                THEN <<[plus |-> step.timeDeltaSeconds[1] > 0,
                        mins |-> RoundMinutes(step.timeDeltaSeconds[1])]>>
                ELSE <<>>]]

\* summaryToLLMContext: the flow section
FlowLines(sm) ==
  IF Len(sm.flowEvents) > 0
  THEN <<[line |-> "flowHeader"]>>
       \o [i \in 1..Len(sm.flowEvents) |->
             [line |-> "flow", text |-> sm.flowEvents[i].taskTitle,
              after |-> sm.flowEvents[i].lastMicroBeforeFlow,
              mins |-> RoundMinutes(sm.flowEvents[i].durationSeconds)]]
  ELSE <<>>

\* summaryToLLMContext: the stuck section
StuckLines(sm) ==
  IF Len(sm.stuckEvents) > 0
  THEN <<[line |-> "stuckHeader"]>>
       \o [i \in 1..Len(sm.stuckEvents) |->
             LET st == sm.stuckEvents[i] IN
             [line |-> "stuck", text |-> st.microAction,
              reason |-> st.reason, pivot |-> st.pivotChosen,
              outcome |-> IF st.rescueSucceeded = <<TRUE>> THEN "recovered"
                          ELSE IF st.rescueSucceeded = <<FALSE>>
                          THEN "not_recovered" ELSE "unknown"]]
  ELSE <<>>

\* summaryToLLMContext: the abandonment section
AbandonLines(sm) ==
  IF Len(sm.abandonments) > 0
  THEN <<[line |-> "abandonHeader"]>>
       \o [i \in 1..Len(sm.abandonments) |->
             [line |-> "abandon", time |-> sm.abandonments[i].time,
              mins |-> RoundMinutes(sm.abandonments[i].elapsedSeconds),
              text |-> sm.abandonments[i].microAction]]
  ELSE <<>>

\* summaryToLLMContext: the lines it joins, each as the values it formats
summaryToLLMContext(sm) ==
  <<[line |-> "title"], [line |-> "planHeader"],
    [line |-> "brainDump", n |-> Len(sm.planning.brainDumpTasks),
     items |-> IF sm.planning.brainDumpTasks \in {<<>>, <<"">>}
               THEN <<"none">> ELSE sm.planning.brainDumpTasks],
    [line |-> "focus", text |-> OrElse(sm.planning.focusTaskTitle, "none")],
    [line |-> "firstMicro",
     text |-> OrElse(sm.planning.firstMicroAction, "none"),
     source |-> IF sm.planning.scaffoldSource = <<"ai_chip">>
                THEN "ai" ELSE "user"],
    [line |-> "trailHeader", n |-> sm.stats.totalMicroSteps,
     done |-> sm.stats.completedMicroSteps]>>
  \o TrailLines(sm) \o FlowLines(sm) \o StuckLines(sm) \o AbandonLines(sm)
  \o <<[line |-> "macroHeader"],
       [line |-> "macro", text |-> OrElse(sm.macroTask.title, "none"),
        done |-> sm.macroTask.completed,
        via |-> IF sm.macroTask.completed THEN sm.macroTask.completedVia
                ELSE <<>>]>>
  \o (IF Len(sm.leftoverTasks) > 0
      THEN <<[line |-> "leftoverHeader"],
             [line |-> "leftovers", items |-> sm.leftoverTasks]>>
      ELSE <<>>)
  \o <<[line |-> "statsHeader"],
       [line |-> "focusMinutes", n |-> sm.stats.totalFocusMinutes],
       [line |-> "flowMinutes", n |-> sm.stats.totalFlowMinutes],
       [line |-> "stuckCount", n |-> sm.stats.totalStuckCount]>>
  \o (IF sm.stats.averageTimeDeltaSeconds # <<>>
      THEN LET avg == sm.stats.averageTimeDeltaSeconds[1] IN
           <<[line |-> "avgDelta", over |-> avg > 0,
              mins |-> IF RoundMinutes(avg) < 0 THEN 0 - RoundMinutes(avg)
                       ELSE RoundMinutes(avg)]>>
      ELSE <<>>)

\* a stored event as the summary reads it: type, timestamp and the payload
\* fields read by any section (text: reason / chosenPivot / completedVia /
\* source of plan.first_micro; source: reasonSource / pivotSource; items:
\* task titles)
StoredEvent(type, sid, ts, title, micro, secs, est, text) ==
  [type |-> type, sessionId |-> sid, timestamp |-> ts, taskTitle |-> title,
   microAction |-> micro, seconds |-> secs, estimatedSeconds |-> est,
   text |-> text, source |-> "self", items |-> <<>>]

\* an event of the micro-step trail
DayEvent(type, micro, secs, est) ==
  StoredEvent(type, 0, 0, "", micro, secs, est, "")

\* the events a day's log is made of here
DayEventValues ==
  {DayEvent("exec.micro_completed", m, ActualSecs, est) :
     m \in {"a", "b"}, est \in {<<>>, <<EstimatedSecs>>}}
  \cup {DayEvent(t, m, ActualSecs, <<>>) :
          t \in {"stuck.triggered", "abandon.exit"}, m \in {"a", "b"}}
  \cup {DayEvent("session.started", "", 0, <<>>)}

\* the chosenPivot text of the pivot of session sid at time ts: one text per
\* pivot
PivotText(sid, ts) ==
  <<<<"p11", "p12", "p13", "p14">>, <<"p21", "p22", "p23", "p24">>,
    <<"p31", "p32", "p33", "p34">> >>[sid][ts]

\* the events of a stuck / rescue log
StuckEventValues ==
  {StoredEvent("stuck.reason", sid, ts, "", "a", 0, <<>>, "r") :
     sid \in 1..MaxLogSessions, ts \in 1..(MaxStamp - 1)}
  \cup {StoredEvent("stuck.pivot_chosen", sid, ts, "", "", 0, <<>>,
                    PivotText(sid, ts)) :
          sid \in 1..MaxLogSessions, ts \in 1..MaxStamp}
  \cup {StoredEvent("exec.micro_completed", sid, ts, "", "a", ActualSecs,
                    <<>>, "") : sid \in 1..MaxLogSessions, ts \in 1..MaxStamp}

\* the events of a flow log
FlowEventValues ==
  {StoredEvent("exec.flow_entered", sid, ts, "T", "a", 0, <<>>, "") :
     sid \in 1..MaxLogSessions, ts \in 1..(MaxStamp - 1)}
  \cup {StoredEvent("exec.flow_ended", sid, MaxStamp, "T", "", secs, <<>>,
                    "task_done") :
          sid \in 1..MaxLogSessions, secs \in {FlowSecs, 2 * FlowSecs}}

\* the events of a planning / closure log
MacroEventValues ==
  {StoredEvent("plan.focus_selected", 0, 0, t, "", 0, <<>>, "") :
     t \in {"A", "B"}}
  \cup {StoredEvent("session.macro_completed", 0, 0, t, "", 0, <<>>,
                    "flow") : t \in {"A", "B"}}

\* the logs of at most MaxDayEvents events of one of the four families
LogLists ==
  UNION {[1..n -> vs] :
           n \in 0..MaxDayEvents,
           vs \in {DayEventValues, StuckEventValues, FlowEventValues,
                   MacroEventValues}}

\* a day's log has been loaded and no summary built yet
InitSummary ==
  /\ SInit /\ TInit
  /\ dayEvents \in LogLists
  /\ summary = NoSummary
  /\ context = <<>>
  /\ builds = 0

\* buildDailySummary called on the loaded log (ReflectionChat loadEvents)
BuildDailySummary ==
  /\ builds < MaxBuilds
  /\ summary' = buildDailySummary(dayEvents)
  /\ builds' = builds + 1
  /\ UNCHANGED <<svars, tvars, dayEvents, context>>

\* summaryToLLMContext called on the summary built last
RenderContext ==
  /\ summary.built
  /\ context = <<>>
  /\ context' = summaryToLLMContext(summary)
  /\ UNCHANGED <<svars, tvars, dayEvents, summary, builds>>

NextSummary ==
  \/ BuildDailySummary
  \/ RenderContext

SpecSummary == InitSummary /\ [][NextSummary]_vars

\* TrackEventMap: the sixteen registered event kinds
TrackEventTypes ==
  {"plan.brain_dump", "plan.focus_selected", "plan.first_micro",
   "exec.micro_started", "exec.micro_completed", "exec.flow_entered",
   "exec.flow_ended", "stuck.triggered", "stuck.reason",
   "stuck.pivot_offered", "stuck.pivot_chosen", "abandon.exit",
   "session.started", "session.ended", "session.macro_completed",
   "daily.leftovers"}

\* C19: every event a command of the session controller or of the stuck
\* panel passes to track() has one of the sixteen registered kinds.
C19_ClosedTaxonomy ==
  \A i \in 1..Len(emitted) : emitted[i].type \in TrackEventTypes

\* the events of a log that yield a trail record
TrailKinds == {"exec.micro_completed", "stuck.triggered", "abandon.exit"}

\* the trail record of one source event
TrailEntry(e) ==
  IF e.type = "exec.micro_completed" THEN CompletedEntry(e)
  ELSE IF e.type = "stuck.triggered" THEN StuckEntry(e)
  ELSE AbandonedEntry(e)

\* the source events of the trail, in the order of the log
TrailSources(events) == SelectSeq(events, LAMBDA e : e.type \in TrailKinds)

\* C20: the microStepTrail of buildDailySummary has one record per
\* exec.micro_completed, stuck.triggered and abandon.exit event of the
\* input, in the order in which these events appear in the input.
C20_TrailOrder ==
  summary.built =>
    LET src == TrailSources(dayEvents) IN
    summary.microStepTrail = [i \in 1..Len(src) |-> TrailEntry(src[i])]

\* the status of the trail record of an event of kind k
StatusOf(k) ==
  IF k = "exec.micro_completed" THEN "completed"
  ELSE IF k = "stuck.triggered" THEN "stuck" ELSE "abandoned"

\* C20, the part that holds: one record per source event, and the records of
\* one status are those of the events of its kind, in the order of the log
C20_TrailPerKind ==
  summary.built =>
    /\ Len(summary.microStepTrail) = Len(TrailSources(dayEvents))
    /\ \A k \in TrailKinds :
         LET src == filterByType(dayEvents, k) IN
         SelectSeq(summary.microStepTrail, LAMBDA r : r.status = StatusOf(k))
           = [i \in 1..Len(src) |-> TrailEntry(src[i])]


\* the stuck.pivot_chosen events of the log that a stuck.reason may be
\* paired with: same session, strictly later
LaterPivots(events, reason) ==
  {k \in 1..Len(events) :
     /\ events[k].type = "stuck.pivot_chosen"
     /\ events[k].sessionId = reason.sessionId
     /\ events[k].timestamp > reason.timestamp}

\* C21: the stuck record of a stuck.reason names a stuck.pivot_chosen of
\* the same session with a strictly later timestamp, and when the log has no
\* such pivot its pivotChosen is empty and its rescueSucceeded is null.
C21_PivotPairing ==
  summary.built =>
    LET reasons == filterByType(dayEvents, "stuck.reason") IN
    /\ Len(summary.stuckEvents) = Len(reasons)
    /\ \A i \in 1..Len(reasons) :
         LET later == LaterPivots(dayEvents, reasons[i])
             rec == summary.stuckEvents[i]
         IN IF later = {}
            THEN rec.pivotChosen = "" /\ rec.rescueSucceeded = <<>>
            ELSE /\ rec.pivotChosen \in {dayEvents[k].text : k \in later}
                 /\ rec.rescueSucceeded \in {<<TRUE>>, <<FALSE>>}

\* a summary built from a log with a reason whose session has one pivot
\* before it and one pivot after it
C21_Witness ==
  /\ summary.built
  /\ \E i, j, k \in 1..Len(dayEvents) :
       /\ dayEvents[i].type = "stuck.pivot_chosen"
       /\ dayEvents[j].type = "stuck.reason"
       /\ dayEvents[k].type = "stuck.pivot_chosen"
       /\ i < j /\ j < k
       /\ dayEvents[i].sessionId = dayEvents[j].sessionId
       /\ dayEvents[k].sessionId = dayEvents[j].sessionId
       /\ dayEvents[i].timestamp <= dayEvents[j].timestamp
       /\ dayEvents[k].timestamp > dayEvents[j].timestamp
       /\ summary.stuckEvents[1].pivotChosen = dayEvents[k].text


DistinctStuckPivots(events) ==
  LET ps == filterByType(events, "stuck.pivot_chosen") IN
  \A i, j \in 1..Len(ps) : i # j => ps[i].text # ps[j].text

DistinctFlowEnds(events) ==
  LET es == filterByType(events, "exec.flow_ended") IN
  \A i, j \in 1..Len(es) : i # j => es[i].seconds # es[j].seconds

\* C28: no stuck.pivot_chosen event is paired with two stuck.reason events,
\* and no exec.flow_ended event with two exec.flow_entered events.
C28_OneToOne ==
  summary.built =>
    /\ DistinctStuckPivots(dayEvents) =>
         \A i, j \in 1..Len(summary.stuckEvents) :
           (i # j /\ summary.stuckEvents[i].pivotChosen # "")
             => summary.stuckEvents[i].pivotChosen
                  # summary.stuckEvents[j].pivotChosen
    /\ DistinctFlowEnds(dayEvents) =>
         \A i, j \in 1..Len(summary.flowEvents) :
           (i # j /\ summary.flowEvents[i].durationSeconds # 0)
             => summary.flowEvents[i].durationSeconds
                  # summary.flowEvents[j].durationSeconds

\* C28, the stuck half alone, on logs in time order
C28_StuckOneToOne ==
  (summary.built /\ DistinctStuckPivots(dayEvents)
   /\ \A i, j \in 1..Len(dayEvents) :
        i < j => dayEvents[i].timestamp < dayEvents[j].timestamp)
    => \A i, j \in 1..Len(summary.stuckEvents) :
         (i # j /\ summary.stuckEvents[i].pivotChosen # "")
           => summary.stuckEvents[i].pivotChosen
                # summary.stuckEvents[j].pivotChosen


\* every session.macro_completed of the log is of the task selected last
\* before it, as handleFocusTask and handleTaskDone produce them
FocusedBeforeCompleted(events) ==
  \A j \in 1..Len(events) :
    events[j].type = "session.macro_completed"
      => LET focus == filterByType(SubSeq(events, 1, j - 1),
                                   "plan.focus_selected")
         IN /\ focus # <<>>
            /\ focus[Len(focus)].taskTitle = events[j].taskTitle

\* C29: when macroTask.completed is true, macroTask.title is the task of the
\* session.macro_completed event that made it true (the last one of the log).
C29_MacroTask ==
  (summary.built /\ FocusedBeforeCompleted(dayEvents)
   /\ summary.macroTask.completed)
    => LET done == filterByType(dayEvents, "session.macro_completed") IN
       summary.macroTask.title = <<done[Len(done)].taskTitle>>


\* C30, the states: at most one interval timer runs, and one runs exactly
\* when the tracker is initialised
C30_TimerStates ==
  /\ timers \in {0, 1}
  /\ (timers = 1) <=> initialized
  /\ flushTimer <=> initialized

\* C30, the steps: init() on an initialised tracker changes nothing, and
\* destroy() on an uninitialised tracker cancels no timer and leaves it
\* uninitialised
C30_IdleCalls ==
  /\ (tlast'.op = "init" /\ initialized) =>
       UNCHANGED <<buffer, flushTimer, timers, initialized, unloadListeners,
                   pending>>
  /\ (tlast'.op = "destroy" /\ ~initialized) =>
       (timers' = timers /\ ~flushTimer' /\ ~initialized')

\* C30: after any sequence of init() and destroy() calls at most one
\* interval timer is active, it is active exactly when the tracker is
\* initialised, and a call that finds the tracker already in the state it
\* asks for changes neither the timer nor the initialised flag.
C30_SingleTimer == []C30_TimerStates /\ [][C30_IdleCalls]_vars

\* init() again after a destroy(): the second timer is the only one
C30_Witness ==
  /\ unloadListeners = 2
  /\ initialized /\ timers = 1
  /\ tlast.op = "init"


\* the steps that call Tracker.flush
FlushOps == {"flush", "destroy", "track"}

\* the buffer that the flush of this step found
Drained == tlast'.before \o (IF tlast'.op = "track" THEN tlast'.events ELSE <<>>)

\* this step ran Tracker.flush
Flushed ==
  /\ tlast'.op \in FlushOps
  /\ tlast'.op = "track" => Len(Drained) >= FLUSH_THRESHOLD

\* C23: a flush drains the whole buffer and issues one append per date of
\* the drained events: every event of a call has the call's date, every
\* drained event is in exactly one call, no two calls of the flush have the
\* same date, the events of a call are in buffer order, and the flush of an
\* empty buffer issues no call.
C23_FlushGrouping ==
  [][Flushed =>
       /\ buffer' = <<>>
       /\ SubSeq(pending', 1, Len(pending)) = pending
       /\ \A i \in DOMAIN NewCalls :
            /\ NewCalls[i].events # <<>>
            /\ NewCalls[i].events
                 = SelectSeq(Drained, LAMBDA e : e.date = NewCalls[i].date)
            /\ \A j \in DOMAIN NewCalls : i # j =>
                 NewCalls[i].date # NewCalls[j].date
       /\ \A k \in DOMAIN Drained :
            \E i \in DOMAIN NewCalls : NewCalls[i].date = Drained[k].date
       /\ Drained = <<>> => NewCalls = <<>>]_vars

\* a flush of a buffer with events of two dates, the dates alternating
\* across a requeue
C23_Witness ==
  /\ tlast.op \in {"flush", "destroy"}
  /\ buffer = <<>>
  /\ Len(tlast.before) >= 3
  /\ \E i, j, k \in DOMAIN tlast.before :
       /\ i < j /\ j < k
       /\ tlast.before[i].date = tlast.before[k].date
       /\ tlast.before[j].date # tlast.before[i].date
  /\ Len(pending) >= 2

\* a destroy() that found the buffer empty and issued no call
C23_WitnessEmpty ==
  /\ tlast.op = "destroy" /\ tlast.before = <<>>
  /\ pending = <<>> /\ tracked > 0


\* C24: every session that has been started and is no longer the current
\* one has had exactly one session.ended, tracked after its session.started.
C24_StartEndPairing ==
  /\ \A sid \in obs.started : sid = SidOf(session) \/ sid \in obs.ended
  /\ "ended_twice" \notin obs.broken
  /\ obs.ended \subseteq obs.started

\* C24 without the first conjunct: what holds on every path
C24_EndedOnceAfterStart ==
  /\ "ended_twice" \notin obs.broken
  /\ obs.ended \subseteq obs.started


\* C25, the states: the suggestions shown in stuck_b answer the reason
\* submitted last
C25_LatestReason ==
  (InPhase("stuck_b") /\ pivotData # NoPivot) =>
    pivotData \in {generatePivotResponse(c, ReplyTo(nextReq)) : c \in AIConfigs}

\* C25, the steps: an answer that arrives outside stuck_b sets no
\* suggestion state
C25_NoLateSet ==
  (last'.cmd = "advisor" /\ ~InPhase("stuck_b")) => pivotData' = pivotData

\* C25: with several pivot requests of a session outstanding, the
\* suggestions held in stuck_b are those answering the reason submitted
\* last, whatever the order of the answers, and an answer that arrives after
\* the user left stuck_b does not set suggestion state.
C25_LatestPivot == []C25_LatestReason /\ [][C25_NoLateSet]_vars


\* the events of the given type tracked by the last step
EmittedOf(type) == filterByType(emitted, type)

\* C27: a session is in flow mode exactly from its exec.flow_entered on
\* (handleEnterFlow sets isFlowMode, nothing resets it), so: the step that
\* ends a session in flow mode (finishTask or exit) tracks exactly one
\* exec.flow_ended with the session's id, and no exec.flow_ended is tracked
\* for a session that is not in flow mode.
C27_FlowPairing ==
  ~Silent =>
    /\ (last.flow /\ last.cmd \in {"finishTask", "exit"}) =>
         /\ Len(EmittedOf("exec.flow_ended")) = 1
         /\ EmittedOf("exec.flow_ended")[1].sessionId = last.sid
    /\ ~last.flow => EmittedOf("exec.flow_ended") = <<>>

\* C27 for finishTask alone
C27_FinishTaskPairs ==
  ~Silent =>
    /\ (last.flow /\ last.cmd = "finishTask") =>
         /\ Len(EmittedOf("exec.flow_ended")) = 1
         /\ EmittedOf("exec.flow_ended")[1].sessionId = last.sid
    /\ ~last.flow => EmittedOf("exec.flow_ended") = <<>>


\* the exec.micro_completed events of session sid that the step tracks
CompletedNow(sid) ==
  IF last'.cmd \in {"init", "tick", "setAIConfig", "cancel", "widgetEnter"}
  THEN 0
  ELSE Cardinality({i \in DOMAIN emitted' :
                      /\ emitted'[i].type = "exec.micro_completed"
                      /\ emitted'[i].sessionId = sid})

\* C26: microHistory grows by one exactly with each exec.micro_completed of
\* the session (it is empty when the session starts), so its length is at
\* every moment the number of exec.micro_completed events tracked for the
\* session.
C26_HistoryMatchesLog ==
  [][/\ (session # NoSession /\ session' # NoSession
           /\ session'.sessionId = session.sessionId) =>
          Len(session'.microHistory)
            = Len(session.microHistory) + CompletedNow(session.sessionId)
     /\ (session' # NoSession /\ SidOf(session') # SidOf(session)) =>
          /\ session'.microHistory = <<>>
          /\ CompletedNow(SidOf(session')) = 0]_vars

====
